---- MODULE Spec2Model ----
(***************************************************************************)
(* Submission store (flask_server/app.py) and cloud-sync engine            *)
(* (scripts/cloud_sync.py).  The store is the SQLite table `submissions`,  *)
(* the persisted configuration is the JSON file cloud_config.json, and an  *)
(* engine is one run of cloud_sync.main(): a separate operating-system     *)
(* process that a timer or a person starts, with its own in-memory copy of *)
(* the configuration.                                                      *)
(***************************************************************************)
EXTENDS Integers, Sequences, FiniteSets, TLC

\* ---------------------------------------------------------------- bounds
\* Largest number of rows the intake handler inserts next to a single run.
MaxRows == 2
\* Largest number of rows the intake handler inserts next to overlapping runs.
MaxOverlapRows == 1
\* Largest number of rows of a backlog: more than one batch holds.
MaxBacklog == 3
\* Largest number of rows the handler threads of the web server insert.
MaxStoreRows == 2
\* Largest reading of the wall clock.
MaxTime == 1
\* CONFIG['batch_size'] (10 in the source), scaled to the number of rows.
batch_size == 2

\* ------------------------------------------------------ program constants
\* CONFIG['max_retries']
max_retries == 3

\* Slots for the runs of main() that may be alive at once: nothing in the source keeps a
\* second run from starting while the first is still in its cycle.
Procs == {1, 2}

\* Python None / SQL NULL for a time stamp.
NULL == -1

\* What one POST can come to (sync_to_cloud, lines 187-206):
\*   Delivered   HTTP 200 and result['success'] true
\*   Rejected    HTTP 200 and result['success'] not true
\*   HttpError   a status other than 200
\*   NetError    requests.exceptions.RequestException (no connection, timeout)
Outcomes == {"Delivered", "Rejected", "HttpError", "NetError"}
Transient == {"HttpError", "NetError"}

VARIABLES
    rows,           \* submissions table: rows[id] for id in 1..Len(rows)
    now,            \* the wall clock
    cfgFile,        \* cloud_config.json: [kind, json], see Absent, Truncated, Json
    pc,             \* pc[p]: where run p of main() stands
    config,         \* config[p]: self.config of run p
    submissions,    \* submissions[p]: the batch selected by run p (ids)
    idx,            \* idx[p]: position in the batch of the item in hand
    attempt,        \* attempt[p]: POSTs made so far for the item in hand
    last,           \* last[p]: the outcome of the latest of them, or "none"
    clean,          \* clean[p]: none of them was Rejected
    success_count,  \* success_count[p]
    ret,            \* ret[p]: what the step just taken made sync_all_pending
                    \* of run p return:
                    \*   "none"       nothing: no return in that step
                    \*   "skipped"    False at line 236 or 240
                    \*   "nopending"  True at line 247
                    \*   "completed"  at line 268
    delivered,      \* history: delivered[id] = the remote has acknowledged id
    tried,          \* history: tried[p] = items of this cycle that were POSTed
    acked,          \* history: acked[p] = items of this cycle that were Delivered
    req,            \* req[h]: where handler thread h of the web server stands in
                    \* submit_data, with the form type, time stamp and rowid of
                    \* the row it is inserting
    stats,          \* the get_stats request: the SELECTs done, and what they gave
    returned,       \* history: the ids save_submission has returned, in commit order
    answered        \* history: the ids submit_data has answered with success

store == <<rows, now, cfgFile>>
engine == <<pc, config, submissions, idx, attempt, last, clean, success_count>>
history == <<delivered, tried, acked>>
web == <<req, stats, returned, answered>>
vars == <<rows, now, cfgFile, pc, config, submissions, idx, attempt, last,
          clean, success_count, ret, delivered, tried, acked,
          req, stats, returned, answered>>

\* ----------------------------------------------------------- configuration
Config(k, s, e, t) ==
    [api_key |-> k, api_secret |-> s, sync_enabled |-> e, last_sync_time |-> t]

\* load_config, lines 56-63: the default written when the file does not exist.
default_config == Config("", "", FALSE, NULL)

\* load_config, lines 66-68: `return {}`.  Every .get() on {} answers None, and
\* the code only ever tests those answers for truth, so {} reads as the record
\* whose fields are all false.
no_config == Config("", "", FALSE, NULL)

\* The states of the file cloud_config.json: not there, there and empty (as
\* open(..., 'w') leaves it until json.dump has written), or holding a
\* configuration.
Absent == [kind |-> "absent", json |-> no_config]
Truncated == [kind |-> "truncated", json |-> no_config]
Json(c) == [kind |-> "json", json |-> c]

\* load_config, lines 50-68: what the constructor gets from the file as it
\* is; json.load raises on an empty file, and the except clause answers {}.
\* The last_sync_time that is loaded is never read: line 265 overwrites it
\* before the only use of it, the save of line 266.  It is kept as NULL.
load_config(f) ==
    IF f.kind = "absent" THEN default_config
    ELSE IF f.kind = "truncated" THEN no_config
    ELSE [f.json EXCEPT !.last_sync_time = NULL]

\* ----------------------------------------------------------------- signer
\* generate_signature: md5 over json.dumps(data, sort_keys=True), the time
\* stamp and the secret, kept as the triple that is hashed; None (the empty
\* tuple) when the secret is empty.
no_signature == <<>>

generate_signature(cfg, data, timestamp) ==
    IF cfg.api_secret = "" THEN no_signature
    ELSE <<data, timestamp, cfg.api_secret>>

\* ------------------------------------------------------------------ store
Ids == 1..Len(rows)

Unsynced(r) == {i \in 1..Len(r) : ~r[i].synced_to_cloud}

\* Mutant of Oldest: ORDER BY timestamp DESC.
Newest(r, U) == {u \in U : \A v \in U : r[u].timestamp >= r[v].timestamp}

\* ORDER BY timestamp ASC: the rows of U that come first.
Oldest(r, U) == {u \in U : \A v \in U : r[u].timestamp <= r[v].timestamp}

\* ORDER BY timestamp ASC LIMIT limit over the rows U: the rows are taken
\* in ascending order until there are `limit` of them or none is left.  SQL
\* leaves the order of rows with equal time stamps open, so the result is
\* any one of these sequences.
RECURSIVE select_rows(_, _, _)
select_rows(r, U, limit) ==
    IF limit = 0 \/ U = {}
      THEN {<<>>}
      ELSE UNION {{<<u>> \o s : s \in select_rows(r, U \ {u}, limit - 1)} :
                     u \in Oldest(r, U)}

\* get_unsynced_submissions, lines 95-101: WHERE synced_to_cloud = FALSE ORDER
\* BY timestamp ASC LIMIT batch_size.
get_unsynced_submissions(r) == select_rows(r, Unsynced(r), batch_size)

\* Mutant of mark_as_synced: the UPDATE flips the flag instead of setting it.
mark_as_synced_flips(r, id, t) ==
    [r EXCEPT ![id] = [@ EXCEPT !.synced_to_cloud = ~@, !.sync_timestamp = t]]

\* mark_as_synced, lines 220-224: the UPDATE.
mark_as_synced(r, id, t) ==
    [r EXCEPT ![id] = [@ EXCEPT !.synced_to_cloud = TRUE, !.sync_timestamp = t]]

\* save_submission, lines 100-112: the INSERT of a row of form type f; the
\* table's defaults give the time stamp, synced_to_cloud = FALSE and
\* sync_timestamp = NULL.
save_submission(r, t, f) ==
    Append(r, [timestamp |-> t, form_type |-> f,
               synced_to_cloud |-> FALSE, sync_timestamp |-> NULL])

\* cursor.lastrowid after the INSERT, line 111: with INTEGER PRIMARY KEY
\* AUTOINCREMENT, one more than the largest rowid the table has had as the
\* statement sees it; rows are never deleted.
lastrowid(r) == Len(r) + 1

\* ------------------------------------------------------------- web server
\* The values of form_type: 'general' is the default of submit_data (line
\* 132), any other label comes from the form.
FormTypes == {"general", "survey"}

\* Threads of the web server that serve requests at the same time.
Handlers == {1, 2}

\* A handler thread with no request in hand.
idle_req == [pc |-> "idle", form_type |-> "", timestamp |-> NULL, id |-> 0]

\* get_stats with no request in hand; type_stats[f] = 0 stands for a form
\* type that is not a key of the dict.
idle_stats ==
    [pc |-> "idle", total_submissions |-> 0, today_submissions |-> 0,
     unsynced_count |-> 0, type_stats |-> [f \in FormTypes |-> 0]]

Init ==
    /\ rows = <<>>
    /\ now = 0
    /\ cfgFile = Absent
    /\ pc = [p \in Procs |-> "off"]
    /\ config = [p \in Procs |-> no_config]
    /\ submissions = [p \in Procs |-> <<>>]
    /\ idx = [p \in Procs |-> 0]
    /\ attempt = [p \in Procs |-> 0]
    /\ last = [p \in Procs |-> "none"]
    /\ clean = [p \in Procs |-> TRUE]
    /\ success_count = [p \in Procs |-> 0]
    /\ ret = [p \in Procs |-> "none"]
    /\ delivered = <<>>
    /\ tried = [p \in Procs |-> {}]
    /\ acked = [p \in Procs |-> {}]
    /\ req = [h \in Handlers |-> idle_req]
    /\ stats = idle_stats
    /\ returned = <<>>
    /\ answered = {}

\* No run returns from sync_all_pending in this step.
NoReturn == [p \in Procs |-> "none"]

\* ------------------------------------------------------------ environment
Tick ==
    /\ now < MaxTime
    /\ now' = now + 1
    /\ UNCHANGED <<rows, cfgFile>>
    /\ UNCHANGED engine
    /\ ret' = NoReturn
    /\ UNCHANGED history
    /\ UNCHANGED web

\* The operator edits cloud_config.json as main() asks for (lines 312-328):
\* an api_key, with or without the secret, sync on or off.
AdminEdit ==
    /\ \E s \in {"", "S"}, e \in BOOLEAN :
         cfgFile' = Json(Config("K", s, e, cfgFile.json.last_sync_time))
    /\ cfgFile' # cfgFile
    /\ UNCHANGED <<rows, now>>
    /\ UNCHANGED engine
    /\ ret' = NoReturn
    /\ UNCHANGED history
    /\ UNCHANGED web

\* submit_data -> save_submission: INSERT and commit, seen at the commit.
Insert(n) ==
    /\ Len(rows) < n
    /\ rows' = save_submission(rows, now, "general")
    /\ delivered' = Append(delivered, FALSE)
    /\ UNCHANGED <<now, cfgFile>>
    /\ UNCHANGED engine
    /\ ret' = NoReturn
    /\ UNCHANGED <<tried, acked>>
    /\ UNCHANGED web

\* ----------------------------------------------------------------- engine
\* What a run holds in memory is gone when the process ends.
Fresh(p) ==
    /\ submissions' = [submissions EXCEPT ![p] = <<>>]
    /\ idx' = [idx EXCEPT ![p] = 0]
    /\ attempt' = [attempt EXCEPT ![p] = 0]
    /\ last' = [last EXCEPT ![p] = "none"]
    /\ clean' = [clean EXCEPT ![p] = TRUE]
    /\ success_count' = [success_count EXCEPT ![p] = 0]
    /\ tried' = [tried EXCEPT ![p] = {}]
    /\ acked' = [acked EXCEPT ![p] = {}]

\* main ends: the process is gone; ret[p] tells, for this one step, how
\* sync_all_pending returned.
Exit(p, how) ==
    /\ pc' = [pc EXCEPT ![p] = "off"]
    /\ ret' = [NoReturn EXCEPT ![p] = how]
    /\ config' = [config EXCEPT ![p] = no_config]
    /\ Fresh(p)
    /\ UNCHANGED delivered
    /\ UNCHANGED web

\* Runs are told apart by the slot they take; a new run takes the first
\* slot that is free.
FirstFree(p) ==
    /\ pc[p] = "off"
    /\ \A q \in Procs : pc[q] = "off" => q >= p

\* main, lines 307-311, with the file in place: CloudSyncManager() loads the
\* configuration, and the api_key is there.  (A run that finds no api_key in
\* an existing file, or finds the file empty, returns at line 329 and has
\* changed nothing: it is a stuttering step.)
Start(p) ==
    /\ FirstFree(p)
    /\ cfgFile.kind # "absent"
    /\ load_config(cfgFile).api_key # ""
    /\ pc' = [pc EXCEPT ![p] = "cycle"]
    /\ config' = [config EXCEPT ![p] = load_config(cfgFile)]
    /\ ret' = NoReturn
    /\ UNCHANGED store
    /\ UNCHANGED <<submissions, idx, attempt, last, clean, success_count>>
    /\ UNCHANGED history
    /\ UNCHANGED web

\* load_config, lines 54-64, with no file: save_config(default_config) opens
\* the file for writing, which creates it empty.
StartCreate(p) ==
    /\ FirstFree(p)
    /\ cfgFile.kind = "absent"
    /\ cfgFile' = Truncated
    /\ config' = [config EXCEPT ![p] = default_config]
    /\ pc' = [pc EXCEPT ![p] = "create"]
    /\ ret' = NoReturn
    /\ UNCHANGED <<rows, now>>
    /\ UNCHANGED <<submissions, idx, attempt, last, clean, success_count>>
    /\ UNCHANGED history
    /\ UNCHANGED web

\* save_config, line 75, for the default: json.dump fills the file; back in
\* main the default has no api_key, so main returns (lines 310-329).
WriteDefault(p) ==
    /\ pc[p] = "create"
    /\ cfgFile' = Json(config[p])
    /\ Exit(p, "none")
    /\ UNCHANGED <<rows, now>>

\* sync_all_pending, lines 234-236: the ping fails.
SkipNoNetwork(p) ==
    /\ pc[p] = "cycle"
    /\ Exit(p, "skipped")
    /\ UNCHANGED store

\* Mutant of SkipDisabled: the skipped cycle stamps last_sync_time all the same.
SkipDisabled_stamps(p) ==
    /\ pc[p] = "cycle"
    /\ ~config[p].sync_enabled
    /\ cfgFile' = Json([config[p] EXCEPT !.last_sync_time = now])
    /\ Exit(p, "skipped")
    /\ UNCHANGED <<rows, now>>

\* sync_all_pending, lines 238-240: the ping succeeds, sync_enabled is false.
SkipDisabled(p) ==
    /\ pc[p] = "cycle"
    /\ ~config[p].sync_enabled
    /\ Exit(p, "skipped")
    /\ UNCHANGED store

\* sync_all_pending, lines 244-247: the query finds nothing.
NoPending(p) ==
    /\ pc[p] = "cycle"
    /\ config[p].sync_enabled
    /\ Unsynced(rows) = {}
    /\ Exit(p, "nopending")
    /\ UNCHANGED store

\* get_unsynced_submissions, lines 118-120: the query raises, the method
\* answers [], and sync_all_pending returns at line 247 all the same.
SelectFails(p) ==
    /\ pc[p] = "cycle"
    /\ config[p].sync_enabled
    /\ Unsynced(rows) # {}
    /\ Exit(p, "nopending")
    /\ UNCHANGED store

\* sync_all_pending, lines 244-252: the batch is read and the loop entered.
SelectBatch(p) ==
    /\ pc[p] = "cycle"
    /\ config[p].sync_enabled
    /\ \E s \in get_unsynced_submissions(rows) :
         /\ Len(s) > 0
         /\ submissions' = [submissions EXCEPT ![p] = s]
    /\ idx' = [idx EXCEPT ![p] = 1]
    /\ pc' = [pc EXCEPT ![p] = "item"]
    /\ UNCHANGED store
    /\ UNCHANGED <<config, attempt, last, clean, success_count>>
    /\ ret' = NoReturn
    /\ UNCHANGED history
    /\ UNCHANGED web

\* The item in hand.
item(p) == submissions[p][idx[p]]

\* sync_all_pending, lines 252-260: on to the next item, or out of the loop.
Advance(p) ==
    /\ attempt' = [attempt EXCEPT ![p] = 0]
    /\ last' = [last EXCEPT ![p] = "none"]
    /\ clean' = [clean EXCEPT ![p] = TRUE]
    /\ IF idx[p] < Len(submissions[p])
         THEN idx' = [idx EXCEPT ![p] = @ + 1] /\ pc' = [pc EXCEPT ![p] = "item"]
         ELSE idx' = idx /\ pc' = [pc EXCEPT ![p] = "save"]

\* Mutant of may_send: only the api_key is looked at, as main() does.
may_send_key_only(cfg, data, timestamp) == cfg.api_key # ""

\* sync_to_cloud, lines 139-174: both credentials are set and the signature
\* is not None; otherwise the method returns False before any request.
may_send(cfg, data, timestamp) ==
    /\ cfg.api_key # ""
    /\ cfg.api_secret # ""
    /\ generate_signature(cfg, data, timestamp) # no_signature

\* sync_to_cloud, lines 138-182: up to the retry loop.
Prepare(p) ==
    /\ pc[p] = "item"
    /\ may_send(config[p], item(p), now)
    /\ pc' = [pc EXCEPT ![p] = "post"]
    /\ UNCHANGED store
    /\ UNCHANGED <<config, submissions, idx, attempt, last, clean, success_count>>
    /\ ret' = NoReturn
    /\ UNCHANGED history
    /\ UNCHANGED web

\* sync_to_cloud, lines 139-141 and 172-174: `return False` with no request.
Unsendable(p) ==
    /\ pc[p] = "item"
    /\ ~may_send(config[p], item(p), now)
    /\ pc' = [pc EXCEPT ![p] = "failed"]
    /\ UNCHANGED store
    /\ UNCHANGED <<config, submissions, idx, attempt, last, clean, success_count>>
    /\ ret' = NoReturn
    /\ UNCHANGED history
    /\ UNCHANGED web

\* Mutant of Acknowledged: any HTTP 200 counts, result['success'] is not read.
Acknowledged_any_200(o) == o \in {"Delivered", "Rejected"}

\* sync_to_cloud, lines 193-197: the response that makes the method return True.
Acknowledged(o) == o = "Delivered"

\* sync_to_cloud, lines 203-206: the branch that sleeps before the next pass.
Sleeps(o, n) == o = "NetError" /\ n < max_retries - 1

\* sync_to_cloud, lines 185-208: whether the loop goes into another pass after
\* pass number n (0-based) came to o.  Only `return True` leaves the
\* loop early; the two logging branches of lines 198-201 fall through to the
\* next pass like the except branch.
Retries(o, n) == ~Acknowledged(o) /\ n + 1 < max_retries

\* sync_to_cloud, lines 185-208: one pass of `for attempt in range(max_retries)`,
\* the remote (or the network) answering o; the method returns True (on to
\* "mark"), goes into the next pass, or returns False at line 208.
Post(p, o) ==
    /\ pc[p] = "post"
    /\ attempt' = [attempt EXCEPT ![p] = @ + 1]
    /\ last' = [last EXCEPT ![p] = o]
    /\ clean' = [clean EXCEPT ![p] = @ /\ o # "Rejected"]
    /\ tried' = [tried EXCEPT ![p] = @ \cup {item(p)}]
    /\ delivered' = IF o = "Delivered" THEN [delivered EXCEPT ![item(p)] = TRUE]
                                       ELSE delivered
    /\ acked' = IF o = "Delivered" THEN [acked EXCEPT ![p] = @ \cup {item(p)}]
                                   ELSE acked
    /\ pc' = [pc EXCEPT ![p] =
                IF Acknowledged(o) THEN "mark"
                ELSE IF ~Retries(o, attempt[p]) THEN "failed"
                ELSE IF Sleeps(o, attempt[p]) THEN "sleep"
                ELSE "post"]
    /\ UNCHANGED store
    /\ UNCHANGED <<config, submissions, idx, success_count>>
    /\ ret' = NoReturn
    /\ UNCHANGED web

\* sync_all_pending, lines 256-260: sync_to_cloud returned False; the failure
\* is logged and the loop goes on.
LogFailure(p) ==
    /\ pc[p] = "failed"
    /\ Advance(p)
    /\ UNCHANGED store
    /\ UNCHANGED <<config, submissions, success_count>>
    /\ ret' = NoReturn
    /\ UNCHANGED history
    /\ UNCHANGED web

\* sync_to_cloud, line 206: time.sleep(CONFIG['retry_delay']) is over.
Sleep(p) ==
    /\ pc[p] = "sleep"
    /\ pc' = [pc EXCEPT ![p] = "post"]
    /\ UNCHANGED store
    /\ UNCHANGED <<config, submissions, idx, attempt, last, clean, success_count>>
    /\ ret' = NoReturn
    /\ UNCHANGED history
    /\ UNCHANGED web

\* sync_all_pending, lines 253-255: mark_as_synced commits, the item counts.
Mark(p) ==
    /\ pc[p] = "mark"
    /\ rows' = mark_as_synced(rows, item(p), now)
    /\ success_count' = [success_count EXCEPT ![p] = @ + 1]
    /\ Advance(p)
    /\ UNCHANGED <<now, cfgFile>>
    /\ UNCHANGED <<config, submissions>>
    /\ ret' = NoReturn
    /\ UNCHANGED history
    /\ UNCHANGED web

\* mark_as_synced, lines 229-230: the UPDATE raises (the database is locked
\* by a writer, the disk is full), the error is logged and swallowed, and
\* line 255 counts the item as a success all the same.
MarkFails(p) ==
    /\ pc[p] = "mark"
    /\ success_count' = [success_count EXCEPT ![p] = @ + 1]
    /\ Advance(p)
    /\ UNCHANGED store
    /\ UNCHANGED <<config, submissions>>
    /\ ret' = NoReturn
    /\ UNCHANGED history
    /\ UNCHANGED web

\* sync_all_pending, lines 265-266, and save_config, line 74: last_sync_time
\* is set in memory and open(..., 'w') truncates the file.
Save(p) ==
    /\ pc[p] = "save"
    /\ config' = [config EXCEPT ![p].last_sync_time = now]
    /\ cfgFile' = Truncated
    /\ pc' = [pc EXCEPT ![p] = "write"]
    /\ UNCHANGED <<rows, now>>
    /\ UNCHANGED <<submissions, idx, attempt, last, clean, success_count>>
    /\ ret' = NoReturn
    /\ UNCHANGED history
    /\ UNCHANGED web

\* save_config, lines 76-77: makedirs or open raises, the error is logged and
\* swallowed, the file is as it was; sync_all_pending returns (line 268).
SaveFails(p) ==
    /\ pc[p] = "save"
    /\ Exit(p, "completed")
    /\ UNCHANGED store

\* save_config, line 75: json.dump writes the configuration of this run;
\* sync_all_pending returns (line 268) and main ends.
Write(p) ==
    /\ pc[p] = "write"
    /\ cfgFile' = Json(config[p])
    /\ Exit(p, "completed")
    /\ UNCHANGED <<rows, now>>

\* The process dies (power loss, kill, Ctrl-C caught at line 334) anywhere
\* inside its run; what is on disk stays, what is in memory is gone.
Crash(p) ==
    /\ pc[p] # "off"
    /\ Exit(p, "none")
    /\ UNCHANGED store

\* The steps of run p of main().
Engine(p) ==
    \/ Start(p)
    \/ StartCreate(p)
    \/ WriteDefault(p)
    \/ SkipNoNetwork(p)
    \/ SkipDisabled(p)
    \/ NoPending(p)
    \/ SelectFails(p)
    \/ SelectBatch(p)
    \/ Prepare(p)
    \/ Unsendable(p)
    \/ \E o \in Outcomes : Post(p, o)
    \/ Sleep(p)
    \/ LogFailure(p)
    \/ Mark(p)
    \/ MarkFails(p)
    \/ Save(p)
    \/ SaveFails(p)
    \/ Write(p)
    \/ Crash(p)

\* One run of main() at a time, started over and over (by a timer, by hand,
\* after a crash), next to the intake handler, the operator and the clock.
Next ==
    \/ Tick
    \/ AdminEdit
    \/ Insert(MaxRows)
    \/ Engine(1)

Spec == Init /\ [][Next]_vars

\* Runs of main() that overlap: a run is started while another one is still
\* in its cycle.  The clock stands still here, so that all rows carry the
\* same time stamp and the batch query may return them in any order; both
\* runs may hold the same row in their batches.
NextOverlap ==
    \/ AdminEdit
    \/ Insert(MaxOverlapRows)
    \/ \E p \in Procs : Engine(p)

SpecOverlap == Init /\ [][NextOverlap]_vars

\* The steps of a run of main() in which nothing goes wrong locally: the ping
\* answers, the table and the configuration file can be read and written, and
\* the process lives to the end of its cycle.  What the remote answers is open.
Cycle(p) ==
    \/ Start(p)
    \/ NoPending(p)
    \/ SelectBatch(p)
    \/ Prepare(p)
    \/ \E o \in Outcomes : Post(p, o)
    \/ Sleep(p)
    \/ LogFailure(p)
    \/ Mark(p)
    \/ Save(p)
    \/ Write(p)

\* The operator has configured the installation: key, secret, sync enabled.
InitBacklog ==
    /\ rows = <<>>
    /\ now = 0
    /\ cfgFile = Json(Config("K", "S", TRUE, NULL))
    /\ pc = [p \in Procs |-> "off"]
    /\ config = [p \in Procs |-> no_config]
    /\ submissions = [p \in Procs |-> <<>>]
    /\ idx = [p \in Procs |-> 0]
    /\ attempt = [p \in Procs |-> 0]
    /\ last = [p \in Procs |-> "none"]
    /\ clean = [p \in Procs |-> TRUE]
    /\ success_count = [p \in Procs |-> 0]
    /\ ret = [p \in Procs |-> "none"]
    /\ delivered = <<>>
    /\ tried = [p \in Procs |-> {}]
    /\ acked = [p \in Procs |-> {}]
    /\ req = [h \in Handlers |-> idle_req]
    /\ stats = idle_stats
    /\ returned = <<>>
    /\ answered = {}

\* A timer starts main() again and again, one run at a time, on a configured
\* installation with the network up, while submissions come in: more of them
\* than one batch holds.
NextBacklog ==
    \/ Tick
    \/ Insert(MaxBacklog)
    \/ Cycle(1)

\* Every run that is started goes on to its end, and a new one is started
\* after it: the steps of the run are weakly fair.
SpecBacklog == InitBacklog /\ [][NextBacklog]_vars /\ WF_vars(Cycle(1))

\* ------------------------------------------------- web server and table
\* A step of the web server, or a call on the table alone: no run of main()
\* moves and the configuration file stays.
NoEngineStep ==
    /\ UNCHANGED cfgFile
    /\ UNCHANGED engine
    /\ ret' = NoReturn
    /\ UNCHANGED <<tried, acked>>

\* Mutant of write_locked: the table takes two writers at once.
write_locked_never(h) == FALSE

\* SQLite lets one connection write at a time: from its INSERT to its commit
\* a handler holds the write lock of the database file, and the INSERT or
\* UPDATE of another connection waits for it (and raises when it has waited
\* for the timeout of sqlite3.connect).
write_locked(h) == \E g \in Handlers \ {h} : req[g].pc = "inserted"

\* submit_data, line 132, and save_submission, lines 100-111: the INSERT is
\* executed in a transaction of the handler's own connection; the row gets
\* the form type of the request, CURRENT_TIMESTAMP and its rowid.
InsertBegin(h) ==
    /\ req[h].pc = "idle"
    /\ ~write_locked(h)
    /\ Len(rows) < MaxStoreRows
    /\ \E f \in FormTypes :
         req' = [req EXCEPT ![h] = [pc |-> "inserted", form_type |-> f,
                                    timestamp |-> now, id |-> lastrowid(rows)]]
    /\ UNCHANGED <<rows, now, delivered>>
    /\ UNCHANGED <<stats, returned, answered>>
    /\ NoEngineStep

\* save_submission, lines 112-116: conn.commit() makes the row part of the
\* table, and the rowid is returned to submit_data.
InsertCommit(h) ==
    /\ req[h].pc = "inserted"
    /\ rows' = save_submission(rows, req[h].timestamp, req[h].form_type)
    /\ delivered' = Append(delivered, FALSE)
    /\ returned' = Append(returned, req[h].id)
    /\ req' = [req EXCEPT ![h].pc = "saved"]
    /\ UNCHANGED <<now, stats, answered>>
    /\ NoEngineStep

\* Mutant of may_reply: the success answer does not wait for the commit.
may_reply_early(w) == w.pc \in {"inserted", "saved"}

\* submit_data, lines 147-160: the success answer is built from the value
\* save_submission has returned, that is after line 112.
may_reply(w) == w.pc = "saved"

\* submit_data, lines 155-160: success True with submission_id.
InsertReply(h) ==
    /\ may_reply(req[h])
    /\ answered' = answered \cup {req[h].id}
    /\ req' = [req EXCEPT ![h] = idle_req]
    /\ UNCHANGED <<rows, now, delivered>>
    /\ UNCHANGED <<stats, returned>>
    /\ NoEngineStep

\* save_submission, line 100: the INSERT raises (the database is locked by
\* another writer for longer than the timeout, the disk is full).
InsertFails(h) ==
    /\ req[h].pc = "idle"
    /\ req' = [req EXCEPT ![h].pc = "error"]
    /\ UNCHANGED <<rows, now, delivered>>
    /\ UNCHANGED <<stats, returned, answered>>
    /\ NoEngineStep

\* save_submission, line 112: conn.commit() raises; the connection is dropped
\* and its transaction with it.
CommitFails(h) ==
    /\ req[h].pc = "inserted"
    /\ req' = [req EXCEPT ![h] = [idle_req EXCEPT !.pc = "error"]]
    /\ UNCHANGED <<rows, now, delivered>>
    /\ UNCHANGED <<stats, returned, answered>>
    /\ NoEngineStep

\* submit_data, lines 162-167: the except clause answers success False, 500.
ErrorReply(h) ==
    /\ req[h].pc = "error"
    /\ req' = [req EXCEPT ![h] = idle_req]
    /\ UNCHANGED <<rows, now, delivered>>
    /\ UNCHANGED <<stats, returned, answered>>
    /\ NoEngineStep

\* submit_data of handler thread h.
Intake(h) ==
    \/ InsertBegin(h)
    \/ InsertCommit(h)
    \/ InsertReply(h)
    \/ InsertFails(h)
    \/ CommitFails(h)
    \/ ErrorReply(h)

\* The web server process dies with requests in hand: what was committed
\* stays in the database file, an open transaction is rolled back.
ServerCrash ==
    /\ \/ \E h \in Handlers : req[h].pc # "idle"
       \/ stats.pc # "idle"
    /\ req' = [h \in Handlers |-> idle_req]
    /\ stats' = idle_stats
    /\ UNCHANGED <<rows, now, delivered>>
    /\ UNCHANGED <<returned, answered>>
    /\ NoEngineStep

\* A run of cloud_sync.py has been acknowledged for row i and calls
\* mark_as_synced(i): the UPDATE and its commit (lines 220-226), with no
\* handler holding the write lock.  It may be the second such call for
\* the row: runs overlap and repeat.
EngineMarks(i) ==
    /\ i \in Ids
    /\ \A h \in Handlers : req[h].pc # "inserted"
    /\ rows' = mark_as_synced(rows, i, now)
    /\ delivered' = [delivered EXCEPT ![i] = TRUE]
    /\ UNCHANGED now
    /\ UNCHANGED web
    /\ NoEngineStep

\* DATE(timestamp), DATE('now') of get_stats: the clock counts days.
Date(t) == t

\* get_stats, lines 265-266: SELECT COUNT(*) FROM submissions.
StatsTotal ==
    /\ stats.pc = "idle"
    /\ stats' = [stats EXCEPT !.pc = "total", !.total_submissions = Len(rows)]
    /\ UNCHANGED <<rows, now, delivered>>
    /\ UNCHANGED <<req, returned, answered>>
    /\ NoEngineStep

\* get_stats, lines 269-273: ... WHERE DATE(timestamp) = DATE('now').
StatsToday ==
    /\ stats.pc = "total"
    /\ stats' = [stats EXCEPT
                   !.pc = "today",
                   !.today_submissions =
                       Cardinality({i \in Ids : Date(rows[i].timestamp) = Date(now)})]
    /\ UNCHANGED <<rows, now, delivered>>
    /\ UNCHANGED <<req, returned, answered>>
    /\ NoEngineStep

\* get_stats, lines 276-277: ... WHERE synced_to_cloud = FALSE.
StatsUnsynced ==
    /\ stats.pc = "today"
    /\ stats' = [stats EXCEPT !.pc = "unsynced",
                              !.unsynced_count = Cardinality(Unsynced(rows))]
    /\ UNCHANGED <<rows, now, delivered>>
    /\ UNCHANGED <<req, returned, answered>>
    /\ NoEngineStep

\* get_stats, lines 280-285: SELECT form_type, COUNT(*) ... GROUP BY form_type.
StatsTypes ==
    /\ stats.pc = "unsynced"
    /\ stats' = [stats EXCEPT
                   !.pc = "types",
                   !.type_stats =
                       [f \in FormTypes |->
                           Cardinality({i \in Ids : rows[i].form_type = f})]]
    /\ UNCHANGED <<rows, now, delivered>>
    /\ UNCHANGED <<req, returned, answered>>
    /\ NoEngineStep

\* get_stats, lines 289-297: the four results are answered.
StatsReply ==
    /\ stats.pc = "types"
    /\ stats' = idle_stats
    /\ UNCHANGED <<rows, now, delivered>>
    /\ UNCHANGED <<req, returned, answered>>
    /\ NoEngineStep

\* The table under its callers: handler threads of the web server that
\* insert at the same time, the web server dying, runs of cloud_sync.py
\* marking rows, and the clock.
NextStore ==
    \/ Tick
    \/ \E h \in Handlers : Intake(h)
    \/ ServerCrash
    \/ \E i \in 1..MaxStoreRows : EngineMarks(i)

SpecStore == Init /\ [][NextStore]_vars

\* get_stats next to one handler thread that inserts rows of any form type
\* and to runs of cloud_sync.py marking rows.
NextStats ==
    \/ Tick
    \/ InsertBegin(1)
    \/ InsertCommit(1)
    \/ InsertReply(1)
    \/ \E i \in 1..MaxStoreRows : EngineMarks(i)
    \/ StatsTotal
    \/ StatsToday
    \/ StatsUnsynced
    \/ StatsTypes
    \/ StatsReply

SpecStats == Init /\ [][NextStats]_vars

\* ----------------------------------------------------------------- claims
Min(a, b) == IF a < b THEN a ELSE b

\* The sequence s of row ids is in ascending `timestamp` order.
Ascending(r, s) ==
    \A i, j \in 1..Len(s) : i < j => r[s[i]].timestamp <= r[s[j]].timestamp

\* s is what ListUnsynced(limit) is to return from the table r: min(limit, n)
\* of the n Unsynced rows, each once, oldest first, and no row left out is
\* older than a row of s.
OldestUnsynced(r, s, limit) ==
    /\ Len(s) = Min(limit, Cardinality(Unsynced(r)))
    /\ \A k \in 1..Len(s) : s[k] \in Unsynced(r)
    /\ \A j, k \in 1..Len(s) : j # k => s[j] # s[k]
    /\ Ascending(r, s)
    /\ \A u \in Unsynced(r) :
          (\A k \in 1..Len(s) : s[k] # u) =>
              \A k \in 1..Len(s) : r[s[k]].timestamp <= r[u].timestamp

\* Run p is between the selection of its batch and the end of its cycle.
InCycle(p) == pc[p] \in {"item", "post", "sleep", "failed", "mark", "save", "write"}

\* The step is a POST of run p that the remote acknowledges as Delivered.
DeliveredNow(p) ==
    /\ pc[p] = "post"
    /\ attempt'[p] = attempt[p] + 1
    /\ last'[p] = "Delivered"

\* C1: across cycles, crashes and restarts, no submission is acknowledged as
\* Delivered by the remote more than once: every Delivered acknowledgment is
\* the first one for its submission.
C1_NoDuplicateDelivery ==
    [][\A p \in Procs : DeliveredNow(p) => ~delivered[item(p)]]_vars

\* C2: a submission that is Synced has received a Delivered acknowledgment;
\* none becomes Synced after Rejected or transient outcomes only.
C2_SyncedWasDelivered ==
    \A i \in Ids : rows[i].synced_to_cloud => delivered[i]

\* C2 witness: a run has just given up on a submission after max_retries
\* attempts without acknowledgment, and the submission is Synced all the
\* same, by the overlapping run that was acknowledged for it.
C2_Witness ==
    \E p, q \in Procs :
        /\ pc[p] = "failed"
        /\ attempt[p] = max_retries
        /\ item(p) \notin acked[p]
        /\ item(p) \in acked[q]
        /\ delivered[item(p)]
        /\ rows[item(p)].synced_to_cloud

\* C3: sync_state starts Unsynced and only ever goes from Unsynced to Synced:
\* a new row is Unsynced, and no step takes a Synced row back to Unsynced.
C3_SyncStateOneWay ==
    [][\A i \in 1..Len(rows') :
         IF i <= Len(rows)
           THEN rows[i].synced_to_cloud => rows'[i].synced_to_cloud
           ELSE ~rows'[i].synced_to_cloud]_vars

\* C3 witness: a run is about to mark a submission that the overlapping run
\* has marked already.
C3_Witness ==
    \E p, q \in Procs :
        /\ p # q
        /\ pc[p] = "mark"
        /\ rows[item(p)].synced_to_cloud
        /\ item(p) \in acked[q]

\* C4: only one cycle runs at a time: no two runs are both between batch
\* selection and completion, and no submission is sent by two overlapping
\* cycles.
C4_OneCycleAtATime ==
    \A p, q \in Procs :
        p # q => /\ ~(InCycle(p) /\ InCycle(q))
                 /\ tried[p] \cap tried[q] = {}

\* C5: a Rejected attempt is the last attempt for its item in the cycle: once
\* the latest outcome is Rejected, no further POST is made for the item.
C5_RejectedIsLastAttempt ==
    [][\A p \in Procs : last[p] = "Rejected" => attempt'[p] <= attempt[p]]_vars

\* C6: in a cycle that passed its pre-checks, when the loop is through, every
\* submission of the batch has had at least one delivery attempt, and exactly
\* the ones that were Delivered are Synced.
C6_BatchRunsThrough ==
    \A p \in Procs :
        pc[p] = "save" =>
            \A k \in 1..Len(submissions[p]) :
                LET id == submissions[p][k]
                IN  /\ id \in tried[p]
                    /\ rows[id].synced_to_cloud <=> id \in acked[p]

\* C7: an item whose attempts fail transiently until the first Delivered at
\* attempt k gets min(k, max_retries) attempts; Delivered within max_retries
\* attempts, it is Synced when the loop leaves it and counts as a success;
\* with max_retries transient failures it is left Unsynced and does not count.
C7_RetryAccounting ==
    [][\A p \in Procs :
         /\ (pc[p] = "mark" /\ clean[p] /\ pc'[p] \in {"item", "save"}) =>
                /\ attempt[p] <= max_retries
                /\ rows'[item(p)].synced_to_cloud
                /\ success_count'[p] = success_count[p] + 1
         /\ (pc[p] = "failed" /\ clean[p] /\ attempt[p] > 0
                /\ pc'[p] \in {"item", "save"}) =>
                /\ attempt[p] = max_retries
                /\ ~rows'[item(p)].synced_to_cloud
                /\ success_count'[p] = success_count[p]]_vars

\* C8: every cycle that passes the sync-enabled and connectivity checks and
\* runs to completion leaves last_sync_time = the time of the cycle in the
\* file, whatever the size of the batch and the outcomes of its items.
C8_CycleStampsLastSync ==
    [][\A p \in Procs :
         ret'[p] \in {"nopending", "completed"} =>
            /\ cfgFile'.kind = "json"
            /\ cfgFile'.json.last_sync_time =
                  IF pc[p] = "write" THEN config[p].last_sync_time ELSE now]_vars

\* C9: a cycle run with api_key and sync_enabled set and no secret stops
\* before it touches the store: it reads no batch, marks nothing and does not
\* come to save the configuration.
C9_NoSecretShortCircuits ==
    \A p \in Procs :
        (config[p].api_key # "" /\ config[p].api_secret = "" /\ config[p].sync_enabled) =>
            /\ submissions[p] = <<>>
            /\ pc[p] \notin {"mark", "save", "write"}

\* C10: with an empty api_secret Sign returns the empty result, and the run
\* sends no request and marks no submission, for any submission of any cycle.
C10_NoSecretNoRequest ==
    \A p \in Procs :
        config[p].api_secret = "" =>
            /\ \A d \in Ids, t \in 0..MaxTime :
                   generate_signature(config[p], d, t) = no_signature
            /\ tried[p] = {}
            /\ acked[p] = {}
            /\ success_count[p] = 0
            /\ pc[p] \notin {"post", "sleep", "mark"}

\* C10 witness: sync_to_cloud of a run with an api_key and no secret has
\* turned an item down, while the overlapping run, which read the file when
\* it held a secret, has sent the same item.
C10_Witness ==
    \E p, q \in Procs :
        /\ config[p].api_key # ""
        /\ config[p].api_secret = ""
        /\ pc[p] = "failed"
        /\ attempt[p] = 0
        /\ item(p) \in tried[q]

\* C11: a cycle that is skipped (sync_enabled false, or the connectivity check
\* fails) mutates nothing: the step that skips leaves the table, the
\* configuration file and the record of deliveries as they were, the run has
\* made no delivery attempt; and a run that loaded sync_enabled = false
\* leaves its pre-checks in no other way than by skipping (or dying).
C11_SkipMutatesNothing ==
    [][\A p \in Procs :
         /\ ret'[p] = "skipped" =>
                /\ rows' = rows
                /\ cfgFile' = cfgFile
                /\ delivered' = delivered
                /\ tried[p] = {}
                /\ attempt[p] = 0
         /\ (pc[p] = "cycle" /\ ~config[p].sync_enabled /\ pc'[p] # pc[p]) =>
                /\ ret'[p] \in {"skipped", "none"}
                /\ pc'[p] = "off"
                /\ rows' = rows
                /\ cfgFile' = cfgFile]_vars

\* C11 witness: a cycle has just been skipped with sync disabled in the file,
\* Unsynced rows in the table and a last_sync_time left by an earlier cycle.
C11_Witness ==
    \E p \in Procs :
        /\ ret[p] = "skipped"
        /\ Unsynced(rows) # {}
        /\ cfgFile.kind = "json"
        /\ ~cfgFile.json.sync_enabled
        /\ cfgFile.json.last_sync_time # NULL

\* C17: the configuration file is rewritten atomically: whenever no run is
\* inside save_config, the file holds a complete configuration (the old one
\* or the new one), never an empty or partial one; so what the next start
\* reads has its api_key, api_secret and sync_enabled.
C17_ConfigRewrittenAtomically ==
    (\A p \in Procs : pc[p] \notin {"create", "write"}) =>
        cfgFile.kind # "truncated"

\* C18: when the loop of a cycle is through, every item the cycle has counted
\* as a success is Synced in the table: the count is the number of Delivered
\* items, and each of them is Synced; so a batch that was Delivered whole has
\* left none of its rows Unsynced.
C18_CountedSuccessIsSynced ==
    \A p \in Procs :
        pc[p] = "save" =>
            /\ success_count[p] = Cardinality(acked[p])
            /\ \A id \in acked[p] : rows[id].synced_to_cloud

\* C19: between two consecutive POSTs for the same item the run sleeps
\* retry_delay: after a POST that came to a transient failure (a network
\* error or a status other than 200) the run is not at the next POST at once.
C19_WaitBetweenAttempts ==
    [][\A p \in Procs :
         (pc[p] = "post" /\ attempt'[p] = attempt[p] + 1 /\ last'[p] \in Transient) =>
             pc'[p] # "post"]_vars

\* C20: no starvation: with cycles started again and again, sync enabled and
\* the network up, every Unsynced submission is in the end sent in a POST
\* (or Synced), whatever the remote answers for the other submissions.
C20_NoStarvation ==
    \A i \in 1..MaxBacklog :
        (i \in Unsynced(rows))
            ~> (\/ i \notin Unsynced(rows)
                \/ \E p \in Procs : i \in tried[p])

\* C12: MarkSynced is idempotent: marking a row that is Synced already is a
\* no-op; the row, its sync_timestamp included, stays as the first
\* application left it.
C12_MarkSyncedIdempotent ==
    [][\A i \in 1..Len(rows) :
         rows[i].synced_to_cloud => rows'[i] = rows[i]]_vars

Range(s) == {s[k] : k \in 1..Len(s)}

\* C14: whatever the interleaving of the handler threads, with rows being
\* marked alongside, the ids save_submission returns are strictly increasing
\* in commit order (so pairwise distinct), the id returned for a row is the
\* rowid of that row, and no INSERT in progress holds an id that was
\* returned or that another INSERT in progress holds.
C14_IdsUniqueIncreasing ==
    /\ \A j, k \in 1..Len(returned) : j < k => returned[j] < returned[k]
    /\ Len(returned) = Len(rows)
    /\ \A k \in 1..Len(returned) : returned[k] = k
    /\ \A h \in Handlers :
          req[h].pc = "inserted" =>
              /\ req[h].id \notin Range(returned)
              /\ \A g \in Handlers \ {h} :
                    req[g].pc = "inserted" => req[g].id # req[h].id

\* C14 witness: two rows have been committed by two handler threads that
\* are in submit_data at the same time, neither has answered yet, and the
\* first row has been marked in between.
C14_Witness ==
    /\ returned = <<1, 2>>
    /\ req[1].pc = "saved" /\ req[1].id = 1
    /\ req[2].pc = "saved" /\ req[2].id = 2
    /\ rows[1].synced_to_cloud

\* C15: durability precedes acknowledgment: every id that submit_data has
\* answered with success is the id of a committed row, and stays so through
\* every later step, a crash of the server included; a row is Unsynced when
\* it is committed; no row is ever lost; and a request that failed is not
\* answered with success.
C15_DurableBeforeAck ==
    [][/\ answered' \subseteq Range(returned') \cap (1..Len(rows'))
       /\ Len(rows') >= Len(rows)
       /\ Len(rows') > Len(rows) => ~rows'[Len(rows')].synced_to_cloud
       /\ \A h \in Handlers :
            (req[h].pc = "error" /\ req'[h].pc = "idle") => answered' = answered]_vars

\* C15 witness: the insert of row 1 was answered with success, and at a
\* later time row 1 is in the table, it is the only row, and every handler
\* thread is idle again (it has answered, or the server has died).
C15_Witness ==
    /\ answered = {1}
    /\ Len(rows) = 1
    /\ \A h \in Handlers : req[h].pc = "idle"
    /\ now > rows[1].timestamp

\* The sum of f over the set S.
RECURSIVE SumOf(_, _)
SumOf(f, S) ==
    IF S = {} THEN 0
    ELSE LET x == CHOOSE y \in S : TRUE
         IN  f[x] + SumOf(f, S \ {x})

\* C16: every result of get_stats describes one state of the table:
\* unsynced_count <= total_submissions, and the counts of type_stats add
\* up to total_submissions.
C16_StatsConsistent ==
    stats.pc = "types" =>
        /\ stats.unsynced_count <= stats.total_submissions
        /\ SumOf(stats.type_stats, FormTypes) = stats.total_submissions

\* The fields of the configuration that only the operator sets.  auto_sync
\* and sync_interval travel in the same dict as api_key and are never read
\* or assigned by the engine; they are stood for by the three fields kept.
operator_fields(c) == <<c.api_key, c.api_secret, c.sync_enabled>>

\* C21: a completed cycle changes no persisted configuration field other
\* than last_sync_time: what the save of lines 265-266 is about to write
\* agrees, in api_key, api_secret and sync_enabled, with the file as it is
\* immediately before that save, also when the file was edited after the run
\* loaded it; and json.dump then writes exactly that.
C21_SaveKeepsOperatorFields ==
    [][\A p \in Procs :
          /\ (pc[p] = "save" /\ pc'[p] = "write" /\ cfgFile.kind = "json")
                => operator_fields(config'[p]) = operator_fields(cfgFile.json)
          /\ (pc[p] = "write" /\ ret'[p] = "completed")
                => operator_fields(cfgFile'.json) = operator_fields(config[p])
      ]_vars

====
